---- MODULE Spec2Model ----
(***************************************************************************)
(* Model of 01_document_understanding_invoices_processing.ipynb: the       *)
(* helper send_pdf_to_bedrock (the spec's infer) and the notebook cells    *)
(* that call it, run top to bottom in one kernel.  An exception ends the   *)
(* cell that raised it; the kernel then runs the next cell.  The file      *)
(* system and the Bedrock endpoint are the environment: every outcome they *)
(* can produce is a nondeterministic choice.                               *)
(***************************************************************************)
EXTENDS Integers, Sequences, FiniteSets, TLC

\* ------------------------------------------------------------------ bounds
\* Longest content list the endpoint returns in one response.
MaxBlocks == 2

\* -------------------------------------------------------- program constants
MaxTokens == 3000
Temperature == 0
DefaultModelId == "us.amazon.nova-pro-v1:0"
region_name == "us-west-2"
DocumentName == "my_invoice_template"
DocumentFormat == "pdf"
PdfPath1 == "invoices/test_invoice_0_1.pdf"
PdfPath2 == "invoices/test_invoice_0_2.pdf"
PromptSummary == "Please summarize the content of this PDF and share your insights in a list format."
PromptToolBuilder == "You are an expert to generate toolConfig for AWS Converse API. ..."
PromptExtract == "Please summarize the content of this PDF and share your insights."
user_questions == "1. What guest spent the most in the hotel? 2. What guest spent the least nights in the hotel?"
InsightsHeader == "You are a business analysist specialiased to extract information from invoices. ..."

\* Python's None, and an unbound name, as tagged values.
None == [tag |-> "None"]

\* ------------------------------------------------------------- environment
\* Bytes of the two invoice files, when they can be read.
FileBytes(path) == IF path = PdfPath1 THEN "bytes_invoice_0_1" ELSE "bytes_invoice_0_2"

\* Texts the model may answer with: a well-formed toolConfig, a toolConfig
\* with no tool in it, the word None, and prose that is no Python expression.
TxtValid == "{'tools':[{'toolSpec':{'name':'extract_invoice_data','inputSchema':{'json':{'type':'object'}}}}],'toolChoice':{'auto':{}}}"
TxtEmptyTools == "{'tools':[],'toolChoice':{'auto':{}}}"
TxtNone == "None"
TxtProse == "Here is the toolConfig: B spent the most with 200"
Texts == {TxtValid, TxtEmptyTools, TxtNone, TxtProse}

\* Argument sets of tool invocations (the Extracted Records).
RecordA == [guest_name |-> "A", total |-> 100]
RecordB == [guest_name |-> "B", total |-> 200]
Records == {RecordA, RecordB}

\* Content blocks of a Converse response: text and toolUse blocks are peers.
TextBlock(t) == [text |-> t]
ToolUseBlock(r) == [toolUse |-> [name |-> "extract_invoice_data", input |-> r]]
Blocks == {TextBlock(t) : t \in Texts} \cup {ToolUseBlock(r) : r \in Records}
ContentLists == UNION {[1..n -> Blocks] : n \in 0..MaxBlocks}

\* The dict bedrock_client.converse returns on success.
Response(content) == [tag |-> "dict", output |-> [message |-> [role |-> "assistant", content |-> content]]]

\* botocore's ClientError codes (the endpoint rejected the request) and the
\* botocore exceptions that are not ClientError (the endpoint was not reached).
ClientErrorCodes == {"ThrottlingException", "ValidationException"}
TransportErrors == {"EndpointConnectionError", "ReadTimeoutError"}

\* ------------------------------------------------- pure parts of the code
\* Python's eval on a text of Texts: the value it evaluates to, or the
\* exception it raises.  A value is tagged with its Python type.
ToolOk == [toolSpec |-> [name |-> "extract_invoice_data", inputSchema |-> [json |-> [type |-> "object"]]]]
Dict(toolList) == [tag |-> "dict", tools |-> toolList]
eval(text) ==
    CASE text = TxtValid      -> [raises |-> "none", value |-> Dict(<<ToolOk>>)]
      [] text = TxtEmptyTools -> [raises |-> "none", value |-> Dict(<<>>)]
      [] text = TxtNone       -> [raises |-> "none", value |-> None]
      [] OTHER                -> [raises |-> "SyntaxError", value |-> None]

\* content_blocks = [{"text": prompt}]
InitialContent(prompt) == <<[text |-> prompt]>>

\* The document block put in front of the instruction instead of after it.
WithDocumentFirst(blocks, bytes) ==
    <<[document |-> [name |-> DocumentName, format |-> DocumentFormat, source |-> [bytes |-> bytes]]]>> \o blocks

\* content_blocks.append({"document": {...}})
DocumentBlock(bytes) ==
    [document |-> [name |-> DocumentName, format |-> DocumentFormat, source |-> [bytes |-> bytes]]]
WithDocument(blocks, bytes) == Append(blocks, DocumentBlock(bytes))

\* boto3.client("bedrock-runtime", region_name=region_name)
Client(service, region) == [service |-> service, region_name |-> region]

\* message = {"role": "user", "content": content_blocks}
Message(blocks) == [role |-> "user", content |-> blocks]

\* inference_config = {"maxTokens": 3000, "temperature": 0}
InferenceConfig == [maxTokens |-> MaxTokens, temperature |-> Temperature]

\* The toolConfig key set whatever tool_config is (the `is not None` test lost).
ConverseParamsAlwaysToolConfig(model_id, message, tool_config) ==
    [modelId |-> model_id, messages |-> <<message>>,
     inferenceConfig |-> [maxTokens |-> MaxTokens, temperature |-> Temperature],
     toolConfig |-> tool_config]

\* converse_params, with toolConfig only if tool_config is not None
ConverseParams(model_id, message, tool_config) ==
    LET base == [modelId |-> model_id, messages |-> <<message>>, inferenceConfig |-> InferenceConfig]
    IN  IF tool_config.tag # "None"
        THEN [k \in DOMAIN base \cup {"toolConfig"} |->
                 IF k = "toolConfig" THEN tool_config ELSE base[k]]
        ELSE base

\* repr of an Extracted Record (a dict), as pprint and str(list) render it.
Repr(r) == IF r = RecordA THEN "{'guest_name': 'A', 'total': 100}"
           ELSE "{'guest_name': 'B', 'total': 200}"

\* `if result:` -- None is falsy, a Converse response dict is not empty.
Truthy(res) == res.tag = "dict"

\* result.get("output", {}).get("message", {}).get("content", [])
ContentOf(res) == res.output.message.content

\* for content in ...: if "text" in content: print(content["text"])
RECURSIVE PrintTexts(_, _)
PrintTexts(content, out) ==
    IF content = <<>> THEN out
    ELSE PrintTexts(Tail(content),
                    IF "text" \in DOMAIN Head(content)
                    THEN Append(out, <<Head(content).text>>) ELSE out)

\* for content in ...: if "toolUse" in content: pprint(content["toolUse"]["input"])
RECURSIVE PPrintToolUses(_, _)
PPrintToolUses(content, out) ==
    IF content = <<>> THEN out
    ELSE PPrintToolUses(Tail(content),
                        IF "toolUse" \in DOMAIN Head(content)
                        THEN Append(out, <<Repr(Head(content).toolUse.input)>>) ELSE out)

\* for content in ...: if "text" in content: tools = content["text"]
RECURSIVE AssignTools(_, _)
AssignTools(content, cur) ==
    IF content = <<>> THEN cur
    ELSE AssignTools(Tail(content),
                     IF "text" \in DOMAIN Head(content)
                     THEN [bound |-> TRUE, text |-> Head(content).text] ELSE cur)

\* The loop inserting each record at the front of the list (insert(0, ...)).
RECURSIVE InsertToolUses(_, _)
InsertToolUses(content, list) ==
    IF content = <<>> THEN list
    ELSE InsertToolUses(Tail(content),
                        IF "toolUse" \in DOMAIN Head(content)
                        THEN <<Head(content).toolUse.input>> \o list ELSE list)

\* The loop skipping a record the list already holds (`if x not in list`).
RECURSIVE AppendNewToolUses(_, _)
AppendNewToolUses(content, list) ==
    IF content = <<>> THEN list
    ELSE AppendNewToolUses(Tail(content),
                           IF /\ "toolUse" \in DOMAIN Head(content)
                              /\ \A i \in 1..Len(list) : list[i] # Head(content).toolUse.input
                           THEN Append(list, Head(content).toolUse.input) ELSE list)

\* for content in ...: if "toolUse" in content: document_list.append(...)
RECURSIVE AppendToolUses(_, _)
AppendToolUses(content, list) ==
    IF content = <<>> THEN list
    ELSE AppendToolUses(Tail(content),
                        IF "toolUse" \in DOMAIN Head(content)
                        THEN Append(list, Head(content).toolUse.input) ELSE list)

\* str of a list of Extracted Records, as the f-string's {document_list}
\* renders it: "[" repr ", " repr ... "]".
\* Only the last record rendered (document_list[-1] for document_list).
StrItemsLastOnly(list) == IF list = <<>> THEN <<>> ELSE <<Repr(list[Len(list)])>>

RECURSIVE StrItems(_)
StrItems(list) ==
    IF list = <<>> THEN <<>>
    ELSE IF Len(list) = 1 THEN <<Repr(list[1])>>
    ELSE <<Repr(list[1]), ", ">> \o StrItems(Tail(list))
StrList(list) == <<"[">> \o StrItems(list) \o <<"]">>

\* prompt_extracting_insights = f"""... {user_questions} ... {document_list}"""
InsightsPrompt(questions, list) ==
    <<InsightsHeader, "User question: ", questions, "List of invoices: ">> \o StrList(list)

\* print("An error occurred:", e)
ErrorLine(code) == <<"An error occurred:", code>>

\* ------------------------------------------------------------------- state
VARIABLES
    cell,           \* the notebook cell the kernel is running
    pc,             \* position inside the cell / inside send_pdf_to_bedrock
    exc,            \* the exception that ended the cell, or "none"
    stdout,         \* what the cell has printed
    \* kernel globals
    pdf_path, prompt_text, tools, document_list, prompt_extracting_insights, result,
    \* arguments and locals of the running send_pdf_to_bedrock call
    prompt, model_id, pdf_file_path, tool_config,
    content_blocks, pdf_bytes, bedrock_client, converse_params,
    \* environment
    file,           \* the attachment's file object: "closed" or "open"
    attachment,     \* what the file system did with the running call's read
    pending,        \* exception raised inside the with block, not yet propagated
    inflight,       \* Converse requests sent and not yet answered
    calls,          \* Converse requests sent by the running call
    outcome         \* what the endpoint did with the running call's request

globals == <<pdf_path, prompt_text, tools, document_list, prompt_extracting_insights, result>>
locals == <<prompt, model_id, pdf_file_path, tool_config, content_blocks, pdf_bytes, bedrock_client,
            converse_params>>
env == <<file, attachment, pending, inflight, calls, outcome>>
vars == <<cell, pc, exc, stdout, globals, locals, env>>

CellOrder == <<"summary", "tool_builder", "extract1", "extract2", "insights_prompt", "insights">>
Unbound == [bound |-> FALSE, text |-> ""]
Path(p) == [tag |-> "str", path |-> p]
NoOutcome == [kind |-> "none", code |-> ""]

\* No call is running: the function's frame does not exist.
NoFrame ==
    /\ prompt' = <<>>
    /\ model_id' = ""
    /\ pdf_file_path' = None
    /\ tool_config' = None
    /\ content_blocks' = <<>>
    /\ pdf_bytes' = ""
    /\ bedrock_client' = None
    /\ converse_params' = None
    /\ attachment' = "none"
    /\ calls' = 0
    /\ outcome' = NoOutcome

\* The kernel after the imports, region_name, the definition of
\* send_pdf_to_bedrock and `pdf_path = "invoices/test_invoice_0_1.pdf"`.
Init ==
    /\ cell = 1
    /\ pc = "start"
    /\ exc = "none"
    /\ stdout = <<>>
    /\ pdf_path = PdfPath1
    /\ prompt_text = <<>>
    /\ tools = Unbound
    /\ document_list = <<>>
    /\ prompt_extracting_insights = <<>>
    /\ result = [tag |-> "unbound"]
    /\ prompt = <<>>
    /\ model_id = ""
    /\ pdf_file_path = None
    /\ tool_config = None
    /\ content_blocks = <<>>
    /\ pdf_bytes = ""
    /\ bedrock_client = None
    /\ converse_params = None
    /\ file = "closed"
    /\ attachment = "none"
    /\ pending = "none"
    /\ inflight = 0
    /\ calls = 0
    /\ outcome = NoOutcome

InCell(name) == CellOrder[cell] = name

\* ------------------------------------------------- send_pdf_to_bedrock
\* The call itself: bind the parameters (model_id takes its default).
Call(p, path, tc) ==
    /\ prompt' = p
    /\ model_id' = DefaultModelId
    /\ pdf_file_path' = path
    /\ tool_config' = tc
    /\ pc' = "enter"
    /\ UNCHANGED <<exc, content_blocks, pdf_bytes, bedrock_client, converse_params, env>>

\* content_blocks = [{"text": prompt}]; if pdf_file_path is not None: ...
Enter ==
    /\ pc = "enter"
    /\ content_blocks' = InitialContent(prompt)
    /\ pc' = IF pdf_file_path.tag # "None" THEN "open" ELSE "build"
    /\ UNCHANGED <<cell, exc, stdout, globals, prompt, model_id, pdf_file_path, tool_config,
                   pdf_bytes, bedrock_client, converse_params, env>>

\* with open(pdf_file_path, "rb") as f: the path opens ...
OpenFile ==
    /\ pc = "open"
    /\ file' = "open"
    /\ pc' = "read"
    /\ UNCHANGED <<cell, exc, stdout, globals, locals, attachment, pending, inflight, calls, outcome>>

\* ... or open raises (no such file, no permission) and the call ends there.
OpenFails ==
    /\ pc = "open"
    /\ attachment' = "open_failed"
    /\ exc' = "FileNotFoundError"
    /\ pc' = "aborted"
    /\ UNCHANGED <<cell, stdout, globals, locals, file, pending, inflight, calls, outcome>>

\* pdf_bytes = f.read()
ReadFile ==
    /\ pc = "read"
    /\ pdf_bytes' = FileBytes(pdf_file_path.path)
    /\ attachment' = "read"
    /\ pc' = "close"
    /\ UNCHANGED <<cell, exc, stdout, globals, prompt, model_id, pdf_file_path, tool_config,
                   content_blocks, bedrock_client, converse_params, file, pending, inflight, calls,
                   outcome>>

\* f.read() raises: the with block is left with the exception pending.
ReadFails ==
    /\ pc = "read"
    /\ pending' = "OSError"
    /\ attachment' = "read_failed"
    /\ pc' = "close"
    /\ UNCHANGED <<cell, exc, stdout, globals, locals, file, inflight, calls, outcome>>

\* The file closed by a plain f.close() after the read, which an exception skips.
CloseFileUnlessRaised ==
    /\ pc = "close"
    /\ file' = IF pending = "none" THEN "closed" ELSE file
    /\ pending' = "none"
    /\ exc' = pending
    /\ pc' = IF pending = "none" THEN "append" ELSE "aborted"
    /\ UNCHANGED <<cell, stdout, globals, locals, attachment, inflight, calls, outcome>>

\* The with statement's exit closes the file, then lets a pending exception out.
CloseFile ==
    /\ pc = "close"
    /\ file' = "closed"
    /\ pending' = "none"
    /\ exc' = pending
    /\ pc' = IF pending = "none" THEN "append" ELSE "aborted"
    /\ UNCHANGED <<cell, stdout, globals, locals, attachment, inflight, calls, outcome>>

\* content_blocks.append({"document": ...})
AppendDocument ==
    /\ pc = "append"
    /\ content_blocks' = WithDocument(content_blocks, pdf_bytes)
    /\ pc' = "build"
    /\ UNCHANGED <<cell, exc, stdout, globals, prompt, model_id, pdf_file_path, tool_config,
                   pdf_bytes, bedrock_client, converse_params, env>>

\* The previous call's answer kept and sent along as conversation history.
BuildRequestWithHistory ==
    /\ pc = "build"
    /\ bedrock_client' = Client("bedrock-runtime", region_name)
    /\ converse_params' =
          LET params == ConverseParams(model_id, Message(content_blocks), tool_config)
          IN  IF result.tag = "dict"
              THEN [params EXCEPT !.messages = <<result.output.message>> \o @]
              ELSE params
    /\ pc' = "converse"
    /\ UNCHANGED <<cell, exc, stdout, globals, prompt, model_id, pdf_file_path, tool_config,
                   content_blocks, pdf_bytes, env>>

\* boto3.client(...), message, inference_config, converse_params
BuildRequest ==
    /\ pc = "build"
    /\ bedrock_client' = Client("bedrock-runtime", region_name)
    /\ converse_params' = ConverseParams(model_id, Message(content_blocks), tool_config)
    /\ pc' = "converse"
    /\ UNCHANGED <<cell, exc, stdout, globals, prompt, model_id, pdf_file_path, tool_config,
                   content_blocks, pdf_bytes, env>>

\* The request sent without waiting for its answer (a call that does not block).
ConverseNoWait ==
    /\ pc = "converse"
    /\ inflight' = inflight + 1
    /\ calls' = calls + 1
    /\ pc' = "returned"
    /\ UNCHANGED <<cell, exc, stdout, globals, locals, file, attachment, pending, outcome>>

\* bedrock_client.converse(**converse_params): the request goes out.
Converse ==
    /\ pc = "converse"
    /\ inflight' = inflight + 1
    /\ calls' = calls + 1
    /\ pc' = "inflight"
    /\ UNCHANGED <<cell, exc, stdout, globals, locals, file, attachment, pending, outcome>>

\* The endpoint answers: return response.
ConverseReturns ==
    /\ pc = "inflight"
    /\ \E content \in ContentLists :
          result' = Response(content)
    /\ outcome' = [kind |-> "ok", code |-> ""]
    /\ inflight' = inflight - 1
    /\ pc' = "returned"
    /\ UNCHANGED <<cell, exc, stdout, pdf_path, prompt_text, tools, document_list,
                   prompt_extracting_insights, locals, file, attachment, pending, calls>>

\* A handler that sends the request again instead of returning.
OnClientErrorRetry(code) ==
    /\ stdout' = Append(stdout, ErrorLine(code))
    /\ result' = result
    /\ pc' = "converse"
    /\ UNCHANGED exc

\* except ClientError as e: print("An error occurred:", e); return None
OnClientError(code) ==
    /\ stdout' = Append(stdout, ErrorLine(code))
    /\ result' = None
    /\ pc' = "returned"
    /\ UNCHANGED exc

\* The endpoint rejects the request: converse raises ClientError.
ConverseRejected ==
    /\ pc = "inflight"
    /\ \E code \in ClientErrorCodes :
          /\ outcome' = [kind |-> "rejected", code |-> code]
          /\ OnClientError(code)
    /\ inflight' = inflight - 1
    /\ UNCHANGED <<cell, pdf_path, prompt_text, tools, document_list,
                   prompt_extracting_insights, locals, file, attachment, pending, calls>>

\* The endpoint is not reached: converse raises a botocore exception that is
\* not a ClientError, which the except clause does not catch.
ConverseUnreachable ==
    /\ pc = "inflight"
    /\ \E e \in TransportErrors :
          /\ outcome' = [kind |-> "unreachable", code |-> e]
          /\ exc' = e
    /\ inflight' = inflight - 1
    /\ pc' = "aborted"
    /\ UNCHANGED <<cell, stdout, globals, locals, file, attachment, pending, calls>>

\* ------------------------------------------------------ the notebook cells
\* The caller's side of a call that returned: `if result:` and the loop.
SummaryOutput(res, out) == IF Truthy(res) THEN PrintTexts(ContentOf(res), out) ELSE out
ToolsAfter(res, cur) == IF Truthy(res) THEN AssignTools(ContentOf(res), cur) ELSE cur
\* The list emptied when the call failed (an else branch resetting it).
RecordsAfterResetOnFailure(res, list) ==
    IF res.tag = "dict" THEN AppendToolUses(res.output.message.content, list) ELSE <<>>
RecordsAfter(res, list) == IF Truthy(res) THEN AppendToolUses(ContentOf(res), list) ELSE list
ExtractOutput(res, out) == IF Truthy(res) THEN PPrintToolUses(ContentOf(res), out) ELSE out

\* eval(tools), the argument expression of both extraction cells: NameError
\* when the name tools was never bound.
EvalTools == IF tools.bound THEN eval(tools.text) ELSE [raises |-> "NameError", value |-> None]

\* result = send_pdf_to_bedrock(prompt=prompt_text, pdf_file_path=pdf_path)
SummaryStart ==
    /\ InCell("summary") /\ pc = "start"
    /\ prompt_text' = <<PromptSummary>>
    /\ Call(prompt_text', Path(pdf_path), None)
    /\ UNCHANGED <<cell, stdout, pdf_path, tools, document_list, prompt_extracting_insights, result>>

SummaryProcess ==
    /\ InCell("summary") /\ pc = "returned"
    /\ stdout' = SummaryOutput(result, stdout)
    /\ pc' = "done"
    /\ UNCHANGED <<cell, exc, globals, locals, env>>

\* result = send_pdf_to_bedrock(prompt=prompt_text_tool_builder, pdf_file_path=pdf_path)
ToolBuilderStart ==
    /\ InCell("tool_builder") /\ pc = "start"
    /\ Call(<<PromptToolBuilder>>, Path(pdf_path), None)
    /\ UNCHANGED <<cell, stdout, globals>>

ToolBuilderProcess ==
    /\ InCell("tool_builder") /\ pc = "returned"
    /\ tools' = ToolsAfter(result, tools)
    /\ stdout' = SummaryOutput(result, stdout)
    /\ pc' = "done"
    /\ UNCHANGED <<cell, exc, pdf_path, prompt_text, document_list, prompt_extracting_insights,
                   result, locals, env>>

\* The call of an extraction cell: the arguments are evaluated first, and
\* eval(tools) may raise before send_pdf_to_bedrock is entered.
ExtractCall ==
    IF EvalTools.raises # "none"
    THEN /\ exc' = EvalTools.raises
         /\ pc' = "aborted"
         /\ UNCHANGED <<locals, env>>
    ELSE Call(prompt_text', Path(pdf_path'), EvalTools.value)

\* prompt_text = ...; document_list = []; result = send_pdf_to_bedrock(...)
Extract1Start ==
    /\ InCell("extract1") /\ pc = "start"
    /\ prompt_text' = <<PromptExtract>>
    /\ document_list' = <<>>
    /\ pdf_path' = pdf_path
    /\ ExtractCall
    /\ UNCHANGED <<cell, stdout, tools, prompt_extracting_insights, result>>

\* pdf_path = "invoices/test_invoice_0_2.pdf"; result = send_pdf_to_bedrock(...)
Extract2Start ==
    /\ InCell("extract2") /\ pc = "start"
    /\ pdf_path' = PdfPath2
    /\ prompt_text' = prompt_text
    /\ ExtractCall
    /\ UNCHANGED <<cell, stdout, tools, document_list, prompt_extracting_insights, result>>

ExtractProcess ==
    /\ (InCell("extract1") \/ InCell("extract2")) /\ pc = "returned"
    /\ document_list' = RecordsAfter(result, document_list)
    /\ stdout' = ExtractOutput(result, stdout)
    /\ pc' = "done"
    /\ UNCHANGED <<cell, exc, pdf_path, prompt_text, tools, prompt_extracting_insights,
                   result, locals, env>>

\* user_questions = ...; prompt_extracting_insights = f"""..."""
InsightsPromptCell ==
    /\ InCell("insights_prompt") /\ pc = "start"
    /\ prompt_extracting_insights' = InsightsPrompt(user_questions, document_list)
    /\ pc' = "done"
    /\ UNCHANGED <<cell, exc, stdout, pdf_path, prompt_text, tools, document_list, result,
                   locals, env>>

\* result = send_pdf_to_bedrock(prompt=prompt_extracting_insights)
InsightsStart ==
    /\ InCell("insights") /\ pc = "start"
    /\ Call(prompt_extracting_insights, None, None)
    /\ UNCHANGED <<cell, stdout, globals>>

InsightsProcess ==
    /\ InCell("insights") /\ pc = "returned"
    /\ stdout' = SummaryOutput(result, stdout)
    /\ pc' = "done"
    /\ UNCHANGED <<cell, exc, globals, locals, env>>

\* The cell has ended, normally or with a traceback; the kernel runs the next.
NextCell ==
    /\ pc \in {"done", "aborted"}
    /\ cell < Len(CellOrder)
    /\ cell' = cell + 1
    /\ pc' = "start"
    /\ exc' = "none"
    /\ stdout' = <<>>
    /\ NoFrame
    /\ UNCHANGED <<globals, file, pending, inflight>>

Next ==
    \/ SummaryStart \/ SummaryProcess
    \/ ToolBuilderStart \/ ToolBuilderProcess
    \/ Extract1Start \/ Extract2Start \/ ExtractProcess
    \/ InsightsPromptCell
    \/ InsightsStart \/ InsightsProcess
    \/ Enter \/ OpenFile \/ OpenFails \/ ReadFile \/ ReadFails \/ CloseFile
    \/ AppendDocument \/ BuildRequest \/ Converse
    \/ ConverseReturns \/ ConverseRejected \/ ConverseUnreachable
    \/ NextCell

Spec == Init /\ [][Next]_vars

\* ------------------------------------------------------------------ claims
\* send_pdf_to_bedrock has been entered in the running cell.
Invoked == model_id = DefaultModelId
\* The running cell has ended, or the call has returned to it.
CallOver == pc \in {"returned", "done", "aborted"}
RemoteFailed == outcome.kind \in {"rejected", "unreachable"}
AttachmentUnreadable == attachment \in {"open_failed", "read_failed"}
Extracting == InCell("extract1") \/ InCell("extract2")

\* C1: whenever the remote call of an invocation has failed, because the
\* endpoint rejected the request or because it was not reached, no exception
\* leaves send_pdf_to_bedrock and the caller gets no result (None).
C1_RemoteFailureNeverRaises ==
    RemoteFailed => (exc = "none" /\ result.tag = "None")

\* C2: whenever the attachment of an invocation could not be read, the
\* invocation ends with an explicit failure value (AttachmentReadError), not
\* with a propagated exception, and has sent no request to the endpoint.
C2_UnreadableAttachmentIsAFailureValue ==
    (AttachmentUnreadable /\ CallOver) =>
        (exc = "none" /\ result.tag = "AttachmentReadError" /\ calls = 0)

\* C3: an invocation sends at most one request to the endpoint: exactly one
\* once its attachment, if any, has been read, none when the read failed, and
\* no second one after the endpoint has failed.
C3_AtMostOneRemoteCall ==
    /\ calls <= 1
    /\ pc \in {"inflight", "returned"} => calls = 1
    /\ outcome.kind # "none" => calls = 1
    /\ (Invoked /\ CallOver) => calls = IF AttachmentUnreadable THEN 0 ELSE 1

C3_Witness ==
    /\ outcome.kind = "rejected"
    /\ pc = "done"
    /\ attachment = "read"
    /\ calls = 1

\* The minimal shape contract of a tool specification: an object with a
\* non-empty tool list, each tool with a name and an object-typed input schema.
MinimalShape(v) ==
    /\ v.tag = "dict"
    /\ "tools" \in DOMAIN v
    /\ Len(v.tools) > 0
    /\ \A i \in 1..Len(v.tools) :
          /\ "toolSpec" \in DOMAIN v.tools[i]
          /\ "name" \in DOMAIN v.tools[i].toolSpec
          /\ "inputSchema" \in DOMAIN v.tools[i].toolSpec
          /\ v.tools[i].toolSpec.inputSchema.json.type = "object"

\* C4: in an extraction cell, a schema text that does not parse into a value
\* of the minimal shape ends the cell with SchemaParseError before
\* send_pdf_to_bedrock is called, so every call that is made carries a
\* schema of the minimal shape.
C4_SchemaValidatedBeforeReuse ==
    (Extracting /\ pc # "start" /\ tools.bound) =>
        IF EvalTools.raises = "none" /\ MinimalShape(EvalTools.value)
        THEN Invoked => MinimalShape(tool_config)
        ELSE ~Invoked /\ exc = "SchemaParseError"

\* C5: when the endpoint rejects the request with error code c, the value the
\* caller gets is a ServiceError carrying c.
C5_FailureValueCarriesCode ==
    (outcome.kind = "rejected" /\ pc \in {"returned", "done"}) =>
        (result.tag = "ServiceError" /\ result.code = outcome.code)

\* The running call has failed: it returned None or ended with an exception.
CallFailed ==
    /\ Invoked
    /\ \/ pc = "aborted"
       \/ pc \in {"returned", "done"} /\ result.tag = "None"

\* C6: no step taken in a failed call, the step that fails it and the
\* caller's handling of the failure included, changes document_list: the
\* records of earlier successful calls stay, each in its position.
C6_FailedCallKeepsRecords ==
    [][CallFailed' => document_list' = document_list]_vars

C6_Witness ==
    /\ InCell("extract2")
    /\ pc = "done"
    /\ outcome.kind = "rejected"
    /\ document_list = <<RecordA, RecordB>>

\* The blocks of one kind of a content list, in their order.
IsText(b) == "text" \in DOMAIN b
IsToolUse(b) == "toolUse" \in DOMAIN b
TextsOf(content) ==
    LET sel == SelectSeq(content, IsText) IN [i \in 1..Len(sel) |-> sel[i].text]
InputsOf(content) ==
    LET sel == SelectSeq(content, IsToolUse) IN [i \in 1..Len(sel) |-> sel[i].toolUse.input]
LastN(list, n) == SubSeq(list, Len(list) - n + 1, Len(list))

\* C7: after a successful call, the text segments a text-reading cell gets are
\* the texts of the response's text blocks, in block order, and the records an
\* extraction cell gets are the inputs of its toolUse blocks, in block order.
C7_SegmentsFollowBlockOrder ==
    (pc = "done" /\ outcome.kind = "ok") =>
        LET content == result.output.message.content
            texts == TextsOf(content)
            inputs == InputsOf(content)
        IN  /\ ~Extracting => stdout = [i \in 1..Len(texts) |-> <<texts[i]>>]
            /\ Extracting =>
                  /\ Len(document_list) >= Len(inputs)
                  /\ LastN(document_list, Len(inputs)) = inputs
                  /\ InCell("extract1") => document_list = inputs
                  /\ stdout = [i \in 1..Len(inputs) |-> <<Repr(inputs[i])>>]

C7_Witness ==
    /\ InCell("extract1")
    /\ pc = "done"
    /\ result = Response(<<ToolUseBlock(RecordB), ToolUseBlock(RecordA)>>)
    /\ document_list = <<RecordB, RecordA>>

\* converse_params has been built by the running call.
RequestBuilt == "modelId" \in DOMAIN converse_params

\* C8: the request holds a toolConfig exactly when the caller passed a
\* tool_config that is not None, and then it is the value the caller passed:
\* in an extraction cell the value of eval(tools), in the other cells nothing.
C8_ToolConfigIffSupplied ==
    RequestBuilt =>
        /\ ("toolConfig" \in DOMAIN converse_params) <=> (tool_config.tag # "None")
        /\ "toolConfig" \in DOMAIN converse_params =>
              /\ converse_params.toolConfig = tool_config
              /\ Extracting
              /\ converse_params.toolConfig = eval(tools.text).value
        /\ (Extracting /\ eval(tools.text).value.tag # "None") =>
              "toolConfig" \in DOMAIN converse_params

C8_Witness ==
    /\ InCell("extract2")
    /\ pc = "inflight"
    /\ "toolConfig" \in DOMAIN converse_params
    /\ converse_params.toolConfig = Dict(<<ToolOk>>)

\* C9: a built request holds one message, of role user, whose content starts
\* with the instruction text and continues with one document block (name,
\* format, the file's bytes) exactly when a path was passed, and it carries
\* maxTokens 3000 and temperature 0 (the signature offers no override).
C9_RequestEnvelope ==
    RequestBuilt =>
        LET msgs == converse_params.messages
            content == msgs[1].content
        IN  /\ Len(msgs) = 1
            /\ msgs[1].role = "user"
            /\ DOMAIN msgs[1] = {"role", "content"}
            /\ content[1] = [text |-> prompt]
            /\ Len(content) = IF pdf_file_path.tag = "None" THEN 1 ELSE 2
            /\ pdf_file_path.tag # "None" =>
                  content[2] = [document |-> [name |-> "my_invoice_template",
                                              format |-> "pdf",
                                              source |-> [bytes |-> FileBytes(pdf_file_path.path)]]]
            /\ converse_params.inferenceConfig = [maxTokens |-> 3000, temperature |-> 0]
            /\ converse_params.modelId = "us.amazon.nova-pro-v1:0"

C9_Witness ==
    /\ InCell("extract2")
    /\ pc = "inflight"
    /\ Len(converse_params.messages[1].content) = 2
    /\ converse_params.messages[1].content[2].document.source.bytes = "bytes_invoice_0_2"

\* The renderings of records among the tokens of a prompt, in their order.
IsRecordRepr(tok) == \E r \in Records : tok = Repr(r)
ReprsIn(p) == SelectSeq(p, IsRecordRepr)

\* C10: the aggregation call passes no attachment and no schema; its
\* instruction holds the rendering of every record of document_list, in list
\* order; and the texts the endpoint returns are what the caller prints.
C10_AggregationCall ==
    (InCell("insights") /\ RequestBuilt) =>
        LET content == converse_params.messages[1].content
        IN  /\ Len(content) = 1
            /\ "toolConfig" \notin DOMAIN converse_params
            /\ ReprsIn(content[1].text) = [i \in 1..Len(document_list) |-> Repr(document_list[i])]
            /\ (pc = "done" /\ outcome.kind = "ok") =>
                  LET texts == TextsOf(result.output.message.content)
                  IN  stdout = [i \in 1..Len(texts) |-> <<texts[i]>>]

C10_Witness ==
    /\ InCell("insights")
    /\ pc = "done"
    /\ document_list = <<RecordA, RecordB>>
    /\ result = Response(<<TextBlock(TxtProse)>>)
    /\ stdout = << <<TxtProse>> >>

\* C11: at most one request is in flight at any time; a request is in flight
\* exactly while the call waits inside converse; and the call has not returned
\* to its cell, nor has a later cell started, before the endpoint answered or
\* failed.
C11_CallsAreSequential ==
    /\ inflight \in {0, 1}
    /\ inflight = 1 <=> pc = "inflight"
    /\ pc = "inflight" => outcome.kind = "none"
    /\ pc = "returned" => outcome.kind \in {"ok", "rejected"}
    /\ calls > 0 /\ CallOver => outcome.kind # "none"
    /\ pc \in {"start", "enter"} => inflight = 0 /\ calls = 0

C11_Witness ==
    /\ InCell("extract2")
    /\ pc = "inflight"
    /\ inflight = 1
    /\ result.tag = "dict"

\* C12: the attachment's file is open only between open() and the end of the
\* with block; while the document block and the request are built and while
\* the remote call runs it is closed and its bytes are fully read; and it is
\* closed when the read has failed.
C12_FileClosedBeforeRequest ==
    /\ file = "open" <=> pc \in {"read", "close"}
    /\ pc \in {"append", "build", "converse", "inflight"} =>
          /\ file = "closed"
          /\ pdf_file_path.tag # "None" =>
                /\ attachment = "read"
                /\ pdf_bytes = FileBytes(pdf_file_path.path)
    /\ AttachmentUnreadable /\ CallOver => file = "closed"

C12_Witness ==
    /\ attachment = "read_failed"
    /\ pc = "aborted"
    /\ exc = "OSError"
    /\ file = "closed"

\* The request and the client that the arguments of a call determine.
RequestOf(p, model, path, tc) ==
    LET doc == IF path.tag = "None" THEN <<>>
               ELSE <<[document |-> [name |-> "my_invoice_template", format |-> "pdf",
                                     source |-> [bytes |-> FileBytes(path.path)]]]>>
        msg == [role |-> "user", content |-> <<[text |-> p]>> \o doc]
        cfg == [maxTokens |-> 3000, temperature |-> 0]
    IN  IF tc.tag = "None"
        THEN [modelId |-> model, messages |-> <<msg>>, inferenceConfig |-> cfg]
        ELSE [modelId |-> model, messages |-> <<msg>>, inferenceConfig |-> cfg, toolConfig |-> tc]

\* C13: whatever the earlier calls did, the request a call builds, and the
\* client it builds it for, are determined by the call's own arguments
\* (prompt, model_id, the bytes at pdf_file_path, tool_config) and by
\* region_name: calls with equal arguments send equal requests.
C13_RequestDependsOnArgumentsOnly ==
    RequestBuilt =>
        /\ converse_params = RequestOf(prompt, model_id, pdf_file_path, tool_config)
        /\ bedrock_client = [service |-> "bedrock-runtime", region_name |-> "us-west-2"]

C13_Witness ==
    /\ InCell("extract2")
    /\ pc = "inflight"
    /\ tools.bound
    /\ result.tag = "dict"
    /\ document_list # <<>>

\* An extraction cell handles a response the endpoint returned.
HandlesResponse == Extracting /\ pc = "returned" /\ outcome.kind = "ok" /\ pc' = "done"

\* C14: every step leaves document_list as it is, except the handling of a
\* successful response in an extraction cell, which puts the inputs of the
\* response's toolUse blocks, one per block and in block order, after the
\* records already held; nothing is removed, moved or merged.
C14_RecordsAppendOnly ==
    [][document_list' = document_list \o
          (IF HandlesResponse THEN InputsOf(result.output.message.content) ELSE <<>>)]_vars

C14_Witness ==
    /\ InCell("extract2")
    /\ pc = "done"
    /\ outcome.kind = "ok"
    /\ result = Response(<<ToolUseBlock(RecordA), TextBlock(TxtProse)>>)
    /\ document_list = <<RecordA, RecordB, RecordA>>

\* The text of the last text block of a content list.
LastText(content) == TextsOf(content)[Len(TextsOf(content))]

\* The schema variable is the last text of a successful schema-authoring
\* response, and is bound only by one that held a text block.
ToolsFromAuthoring ==
    /\ tools.bound => cell >= 2
    /\ (InCell("tool_builder") /\ pc \in {"done", "aborted"}) =>
          tools = IF outcome.kind = "ok" /\ TextsOf(result.output.message.content) # <<>>
                  THEN [bound |-> TRUE, text |-> LastText(result.output.message.content)]
                  ELSE Unbound
    /\ (InCell("extract1") /\ pc \notin {"returned", "done"} /\ tools.bound) =>
          /\ result.tag = "dict"
          /\ tools.text = LastText(result.output.message.content)
    /\ (Extracting /\ Invoked) =>
          /\ tools.bound
          /\ tool_config = eval(tools.text).value

\* With the schema variable unbound an extraction cell ends with NameError
\* before send_pdf_to_bedrock is entered.
UnboundToolsStopsExtraction ==
    (Extracting /\ ~tools.bound /\ pc # "start") =>
        (pc = "aborted" /\ exc = "NameError" /\ ~Invoked /\ calls = 0)

\* Every extraction request sent carries the schema parsed from that text.
ExtractionRequestHasSchema ==
    (Extracting /\ calls > 0) =>
        /\ "toolConfig" \in DOMAIN converse_params
        /\ converse_params.toolConfig = eval(tools.text).value

\* C15: in a fresh run the schema of every extraction request is the one
\* parsed from the last text block of a successful schema-authoring response;
\* without such a text the schema variable stays unbound and every extraction
\* cell stops before any remote call; so no extraction request goes out
\* without a schema derived from a schema-authoring response.
C15_ExtractionUsesAuthoredSchema ==
    /\ ToolsFromAuthoring
    /\ UnboundToolsStopsExtraction
    /\ ExtractionRequestHasSchema

====
